---- MODULE Spec2Model ----
(***************************************************************************)
(* Model of the douban2imdb migration core: the migration plan builder     *)
(* (src/src/prepare_migration.py), the rating converter and the title      *)
(* normaliser (src/src/utils.py) and the plan replayer                     *)
(* (src/src/migrate.py, execute_migration_plan).                           *)
(*                                                                         *)
(* A text is a sequence of characters; a character is a one-element name.  *)
(* Latin characters are written as themselves, CJK characters by name:     *)
(*   "di" = U+7B2C, "ji" = U+5B63, "qi" = U+671F, "yi".."shi" = the        *)
(*   numerals one..ten, "ling" = zero, "wan" "jie" "pian" = U+5B8C U+7ED3  *)
(*   U+7BC7, "fcolon" = U+FF1A, "ndash" = U+2013, "mdash" = U+2014.        *)
(* A number with one decimal (a rating, an average) is kept in tenths.     *)
(* A similarity score is a rational <<num, den>>.                          *)
(***************************************************************************)
EXTENDS Integers, Sequences, FiniteSets, TLC

----------------------------------------------------------------------------
(* Bounds of the model *)

MaxSrc == 2
MaxCat == 2
MaxRuns == 2
MaxPlanSrc == 2

----------------------------------------------------------------------------
(* Characters and character classes *)

Digits == {"0", "1", "2", "3", "4", "5", "6", "7", "8", "9"}
CnNumerals == {"yi", "er", "san", "si", "wu", "liu", "qi7", "ba", "jiu", "shi"}
Whitespace == {" "}

UpperCase == <<"A", "B", "C", "D", "E", "F", "G", "H", "I", "J", "K", "L", "M", "N", "O", "P", "Q", "R", "S", "T", "U", "V", "W", "X", "Y", "Z">>
LowerCase == <<"a", "b", "c", "d", "e", "f", "g", "h", "i", "j", "k", "l", "m", "n", "o", "p", "q", "r", "s", "t", "u", "v", "w", "x", "y", "z">>

UpperToLower ==
    [c \in {UpperCase[i] : i \in 1..26} |-> LowerCase[CHOOSE i \in 1..26 : UpperCase[i] = c]]

LowerChar(c) == IF c \in DOMAIN UpperToLower THEN UpperToLower[c] ELSE c

Lower(s) == [i \in 1..Len(s) |-> LowerChar(s[i])]

RECURSIVE Filter(_, _)
Filter(s, drop) ==
    IF s = <<>> THEN <<>>
    ELSE IF Head(s) \in drop THEN Filter(Tail(s), drop)
         ELSE <<Head(s)>> \o Filter(Tail(s), drop)

RECURSIVE LStrip(_)
LStrip(s) ==
    IF s # <<>> /\ Head(s) \in Whitespace THEN LStrip(Tail(s)) ELSE s

RECURSIVE RStripSet(_, _)
RStripSet(s, cs) ==
    IF s # <<>> /\ s[Len(s)] \in cs THEN RStripSet(SubSeq(s, 1, Len(s) - 1), cs)
    ELSE s

Strip(s) == RStripSet(LStrip(s), Whitespace)

(* str.split(): the maximal runs of non-whitespace characters *)
RECURSIVE SplitWords(_, _)
SplitWords(s, cur) ==
    IF s = <<>> THEN (IF cur = <<>> THEN <<>> ELSE <<cur>>)
    ELSE IF Head(s) \in Whitespace
         THEN (IF cur = <<>> THEN <<>> ELSE <<cur>>) \o SplitWords(Tail(s), <<>>)
         ELSE SplitWords(Tail(s), Append(cur, Head(s)))

RECURSIVE JoinWords(_)
JoinWords(ws) ==
    IF ws = <<>> THEN <<>>
    ELSE IF Len(ws) = 1 THEN ws[1]
         ELSE ws[1] \o <<" ">> \o JoinWords(Tail(ws))

----------------------------------------------------------------------------
(* Regular expressions of the forms the source uses: a pattern is a        *)
(* sequence of atoms [cs |-> character set, q |-> "1" | "+" | "*"],        *)
(* matched greedily with backtracking as Python's re does.                 *)

One(cs) == [cs |-> cs, q |-> "1"]
Plus(cs) == [cs |-> cs, q |-> "+"]
Star(cs) == [cs |-> cs, q |-> "*"]

RECURSIVE Run(_, _, _)
Run(cs, s, i) == IF i <= Len(s) /\ s[i] \in cs THEN 1 + Run(cs, s, i + 1) ELSE 0

RECURSIVE MatchAt(_, _, _, _)
RECURSIVE TryCount(_, _, _, _, _)
(* end position (exclusive) of the match of atoms k.. of pat at i, or 0 *)
MatchAt(pat, k, s, i) ==
    IF k > Len(pat) THEN i
    ELSE IF pat[k].q = "1"
         THEN IF i <= Len(s) /\ s[i] \in pat[k].cs
              THEN MatchAt(pat, k + 1, s, i + 1) ELSE 0
         ELSE TryCount(pat, k, s, i, Run(pat[k].cs, s, i))

TryCount(pat, k, s, i, c) ==
    IF c < (IF pat[k].q = "+" THEN 1 ELSE 0) THEN 0
    ELSE LET e == MatchAt(pat, k + 1, s, i + c)
         IN  IF e # 0 THEN e ELSE TryCount(pat, k, s, i, c - 1)

RECURSIVE SearchFrom(_, _, _)
(* re.search from position i: <<start, end>> of the leftmost match or <<0, 0>> *)
SearchFrom(pat, s, i) ==
    IF i > Len(s) THEN <<0, 0>>
    ELSE LET e == MatchAt(pat, 1, s, i)
         IN  IF e # 0 THEN <<i, e>> ELSE SearchFrom(pat, s, i + 1)

ReSearch(pat, s) == SearchFrom(pat, s, 1)[1] # 0

RECURSIVE SubFrom(_, _, _)
(* re.sub(pat, '', s): every non-overlapping match removed, left to right *)
SubFrom(pat, s, i) ==
    LET m == SearchFrom(pat, s, i)
    IN  IF m[1] = 0 THEN SubSeq(s, i, Len(s))
        ELSE SubSeq(s, i, m[1] - 1) \o SubFrom(pat, s, m[2])

ReSub(pat, s) == SubFrom(pat, s, 1)

----------------------------------------------------------------------------
(* utils.py *)

(* convert_douban_to_imdb_rating: the argument is in tenths (40 = 4.0),    *)
(* int() truncates                                                         *)
Max(a, b) == IF a >= b THEN a ELSE b
Min(a, b) == IF a <= b THEN a ELSE b

(* int(num / den): the truncation towards zero *)
Trunc(num, den) == IF num >= 0 THEN num \div den ELSE 0 - ((0 - num) \div den)

convert_unclamped(douban_rating) == Trunc(douban_rating * 2, 10)

convert_douban_to_imdb_rating(douban_rating) ==
    LET imdb_rating == Trunc(douban_rating * 2, 10)
    IN  Max(1, Min(10, imdb_rating))

Punctuation == {",", ".", ":", ";", "-", "!", "?", "(", ")", "[", "]", "{", "}", "dquote", "'"}

words_to_remove == {<<"t", "h", "e">>, <<"a">>, <<"a", "n">>}

RECURSIVE DropWords(_, _)
DropWords(ws, drop) ==
    IF ws = <<>> THEN <<>>
    ELSE IF Head(ws) \in drop THEN DropWords(Tail(ws), drop)
         ELSE <<Head(ws)>> \o DropWords(Tail(ws), drop)

normalize_words_first(title) ==
    LET words == DropWords(SplitWords(Lower(title), <<>>), words_to_remove)
    IN  Strip(Filter(JoinWords(words), Punctuation))

normalize_movie_title(title) ==
    LET lowered == Lower(title)
        nopunct == Filter(lowered, Punctuation)
        words == DropWords(SplitWords(nopunct, <<>>), words_to_remove)
    IN  Strip(JoinWords(words))

----------------------------------------------------------------------------
(* difflib.SequenceMatcher(None, a, b).ratio(), as prepare_migration.py    *)
(* uses it: the matching blocks are found by taking the longest common     *)
(* block (earliest in a, then earliest in b) and recursing on both sides.  *)

BlockAt(a, b, i, j, k) == \A d \in 0..(k - 1) : a[i + d] = b[j + d]

(* of the matching blocks the longest, then the earliest in a, then in b *)
LongestOf(cands, alo, blo) ==
    IF cands = {} THEN <<alo, blo, 0>>
    ELSE CHOOSE c \in cands :
            \A o \in cands :
                \/ c[3] > o[3]
                \/ c[3] = o[3] /\ c[1] < o[1]
                \/ c[3] = o[3] /\ c[1] = o[1] /\ c[2] <= o[2]

(* find_longest_match on a[alo..ahi] and b[blo..bhi]: <<i, j, size>> *)
FindLongestMatch(a, b, alo, ahi, blo, bhi) ==
    LongestOf({c \in (alo..ahi) \X (blo..bhi) \X (1..(ahi - alo + 1)) :
                 /\ c[1] + c[3] - 1 <= ahi
                 /\ c[2] + c[3] - 1 <= bhi
                 /\ BlockAt(a, b, c[1], c[2], c[3])},
              alo, blo)

RECURSIVE MatchingSize(_, _, _, _, _, _)
RECURSIVE SizeAround(_, _, _, _, _, _, _)
(* get_matching_blocks: the total size of the blocks *)
MatchingSize(a, b, alo, ahi, blo, bhi) ==
    IF alo > ahi \/ blo > bhi THEN 0
    ELSE SizeAround(a, b, alo, ahi, blo, bhi, FindLongestMatch(a, b, alo, ahi, blo, bhi))

SizeAround(a, b, alo, ahi, blo, bhi, m) ==
    IF m[3] = 0 THEN 0
    ELSE m[3]
         + MatchingSize(a, b, alo, m[1] - 1, blo, m[2] - 1)
         + MatchingSize(a, b, m[1] + m[3], ahi, m[2] + m[3], bhi)

(* ratio() as a rational: 2.0 * matches / length, 1.0 when both are empty *)
Ratio(a, b) ==
    IF Len(a) + Len(b) = 0 THEN <<1, 1>>
    ELSE <<2 * MatchingSize(a, b, 1, Len(a), 1, Len(b)), Len(a) + Len(b)>>

(* rationals <<num, den>>, den > 0 *)
RatLess(x, y) == x[1] * y[2] < y[1] * x[2]
RatLeq(x, y) == x[1] * y[2] <= y[1] * x[2]
RatEq(x, y) == x[1] * y[2] = y[1] * x[2]
RatAdd(x, y) == <<x[1] * y[2] + y[1] * x[2], x[2] * y[2]>>
RatMin(x, y) == IF RatLeq(x, y) THEN x ELSE y
RatMax(x, y) == IF RatLeq(y, x) THEN x ELSE y
RECURSIVE GCD(_, _)
GCD(a, b) == IF b = 0 THEN a ELSE GCD(b, a % b)
RatNorm(x) == IF x[1] = 0 THEN <<0, 1>>
              ELSE <<x[1] \div GCD(x[1], x[2]), x[2] \div GCD(x[1], x[2])>>
RatOne == <<1, 1>>
RatZero == <<0, 1>>

----------------------------------------------------------------------------
(* prepare_migration.py: helpers *)

NoYear == ""

similarity_score(title1, title2, year1, year2) ==
    LET norm_title1 == normalize_movie_title(title1)
        norm_title2 == normalize_movie_title(title2)
        title_similarity == Ratio(norm_title1, norm_title2)
        year_bonus == IF year1 # NoYear /\ year2 # NoYear /\ year1 = year2
                      THEN <<2, 10>> ELSE RatZero
    IN  RatNorm(RatMin(RatAdd(title_similarity, year_bonus), RatOne))


Lit(text) == [i \in 1..Len(text) |-> One({text[i]})]

(* the six patterns of is_tv_show and extract_series_name, in their order *)
TvPatterns ==
    << <<One({"di"}), Star(Whitespace), Plus(CnNumerals \cup {"ling"} \cup Digits),
         Star(Whitespace), One({"ji", "qi"})>>,
       Lit(<<"S", "e", "a", "s", "o", "n">>) \o <<Star(Whitespace), Plus(Digits)>>,
       <<One({"S"}), Plus(Digits)>>,
       Lit(<<"wan", "jie", "pian">>),
       <<One({"T", "t"})>> \o Lit(<<"h", "e">>) \o <<Plus(Whitespace), One({"C", "c"})>>
         \o Lit(<<"o", "m", "p", "l", "e", "t", "e">>)
         \o <<Plus(Whitespace), One({"S", "s"})>> \o Lit(<<"e", "r", "i", "e", "s">>),
       <<One({"S", "s"})>> \o Lit(<<"e", "r", "i", "e", "s">>)
         \o <<Plus(Whitespace), Plus(Digits)>> >>

MatchesTvPattern(text) == \E p \in 1..Len(TvPatterns) : ReSearch(TvPatterns[p], text)

StartsWith(s, prefix) ==
    Len(s) >= Len(prefix) /\ SubSeq(s, 1, Len(prefix)) = prefix

Contains(s, part) ==
    \E i \in 1..(Len(s) - Len(part) + 1) : SubSeq(s, i, i + Len(part) - 1) = part

(* imdb_id.split('/')[0] if '/' in imdb_id else imdb_id *)
RECURSIVE MainId(_)
MainId(imdb_id) ==
    IF imdb_id = <<>> \/ Head(imdb_id) = "/" THEN <<>>
    ELSE <<Head(imdb_id)>> \o MainId(Tail(imdb_id))

NoType == ""

(* is_tv_show(title, original_title, metadata): metadata is the record     *)
is_tv_show(title, original_title, metadata) ==
    \/ MatchesTvPattern(title)
    \/ original_title # <<>> /\ MatchesTvPattern(original_title)
    \/ metadata.type = "tv"
    \/ /\ StartsWith(metadata.imdb_id, <<"t", "t">>)
       /\ Contains(metadata.imdb_id, <<"/", "e", "p", "i", "s", "o", "d", "e">>)

TrailingSeparators == Whitespace \cup {":", "fcolon", "-", "ndash", "mdash"}

RECURSIVE StripPatterns(_, _)
StripPatterns(text, p) ==
    IF p > Len(TvPatterns) THEN text
    ELSE StripPatterns(Strip(ReSub(TvPatterns[p], text)), p + 1)

extract_series_name(title) ==
    LET clean_title == StripPatterns(title, 1)
    IN  Strip(RStripSet(clean_title, TrailingSeparators))

(* the alternatives of the season regex of extract_tv_show_details: the    *)
(* atoms before the group, the class of the group, the atoms after it      *)
SeasonAlternatives ==
    << [pre |-> <<One({"S", "s"})>> \o Lit(<<"e", "a", "s", "o", "n">>) \o <<Plus(Whitespace)>>,
        grp |-> Digits, post |-> <<>>],
       [pre |-> <<One({"S"})>>, grp |-> Digits, post |-> <<>>],
       [pre |-> <<One({"di"})>>, grp |-> Digits, post |-> <<One({"ji"})>>],
       [pre |-> <<One({"di"})>>, grp |-> CnNumerals, post |-> <<One({"ji"})>>] >>

(* the group captured once the atoms before it end at g, <<>> on failure *)
GroupFrom(alt, s, g) ==
    IF g # 0 /\ Run(alt.grp, s, g) > 0
       /\ MatchAt(alt.post, 1, s, g + Run(alt.grp, s, g)) # 0
    THEN SubSeq(s, g, g + Run(alt.grp, s, g) - 1) ELSE <<>>

(* the group captured by alternative alt at position i, <<>> when it fails *)
GroupAt(alt, s, i) == GroupFrom(alt, s, MatchAt(alt.pre, 1, s, i))

RECURSIVE FirstGroup(_, _, _)
(* the group of the first alternative from a on that matches at i *)
FirstGroup(s, i, a) ==
    IF a > Len(SeasonAlternatives) THEN <<>>
    ELSE IF GroupAt(SeasonAlternatives[a], s, i) # <<>>
         THEN GroupAt(SeasonAlternatives[a], s, i)
         ELSE FirstGroup(s, i, a + 1)

RECURSIVE SeasonGroupFrom(_, _)
(* first non-None group of re.search(season regex, title), <<>> if no match *)
SeasonGroupFrom(s, i) ==
    IF i > Len(s) THEN <<>>
    ELSE IF FirstGroup(s, i, 1) # <<>> THEN FirstGroup(s, i, 1)
         ELSE SeasonGroupFrom(s, i + 1)

CnNumeralString == <<"yi", "er", "san", "si", "wu", "liu", "qi7", "ba", "jiu", "shi">>

cn_numeral_map == [c \in CnNumerals |-> CHOOSE n \in 1..10 : CnNumeralString[n] = c]

DigitValue == [c \in Digits |->
    CASE c = "0" -> 0 [] c = "1" -> 1 [] c = "2" -> 2 [] c = "3" -> 3 [] c = "4" -> 4
      [] c = "5" -> 5 [] c = "6" -> 6 [] c = "7" -> 7 [] c = "8" -> 8 [] c = "9" -> 9]

RECURSIVE IntOf(_)
IntOf(ds) == IF ds = <<>> THEN 0 ELSE 10 * IntOf(SubSeq(ds, 1, Len(ds) - 1)) + DigitValue[ds[Len(ds)]]

(* lines 290-304: the season number of the captured group *)
SeasonOfGroup(group) ==
    IF group = <<>> THEN 0
    ELSE IF Contains(CnNumeralString, group)
         THEN (IF Len(group) = 1 THEN cn_numeral_map[group[1]] ELSE 0)
         ELSE IF \A i \in 1..Len(group) : group[i] \in Digits
              THEN IntOf(group)
              ELSE 0

(* season_number of extract_tv_show_details *)
SeasonNumber(title) == SeasonOfGroup(SeasonGroupFrom(title, 1))

extract_tv_show_details(title, original_title) ==
    [base_title |-> extract_series_name(title), season_number |-> SeasonNumber(title)]


(* round(num / den): to the nearest integer, a tie to the even one, which  *)
(* is what Python's round(x, 1) gives for an average kept in tenths        *)
RoundHalfEven(num, den) ==
    LET q == num \div den
        r == num % den
    IN  IF 2 * r < den THEN q
        ELSE IF 2 * r > den THEN q + 1
        ELSE IF q % 2 = 0 THEN q ELSE q + 1

RECURSIVE SumRatings(_)
SumRatings(seasons) ==
    IF seasons = <<>> THEN 0 ELSE Head(seasons).rating + SumRatings(Tail(seasons))

(* list.sort(key = season_number): stable insertion sort *)
RECURSIVE InsertSeason(_, _)
InsertSeason(sorted, x) ==
    IF sorted = <<>> THEN <<x>>
    ELSE IF sorted[Len(sorted)].season_number <= x.season_number THEN Append(sorted, x)
         ELSE Append(InsertSeason(SubSeq(sorted, 1, Len(sorted) - 1), x), sorted[Len(sorted)])

RECURSIVE SortSeasons(_)
SortSeasons(seasons) ==
    IF seasons = <<>> THEN <<>>
    ELSE InsertSeason(SortSeasons(SubSeq(seasons, 1, Len(seasons) - 1)), seasons[Len(seasons)])

HasImdbId(movie) == movie.imdb_id # <<>>

(* imdb_index: the last catalog entry of an id wins, as in a dict *)
InImdbIndex(catalog, id) == \E k \in 1..Len(catalog) : catalog[k].imdb_id = id

ImdbIndex(catalog, id) ==
    catalog[CHOOSE k \in 1..Len(catalog) :
              /\ catalog[k].imdb_id = id
              /\ \A j \in (k + 1)..Len(catalog) : catalog[j].imdb_id # id]

(* find_imdb_match_by_id: 0 stands for None, k for catalog entry k *)
find_imdb_match_by_id(douban_movie, catalog) ==
    IF HasImdbId(douban_movie)
       /\ \E k \in 1..Len(catalog) : catalog[k].imdb_id = MainId(douban_movie.imdb_id)
    THEN CHOOSE k \in 1..Len(catalog) :
            /\ catalog[k].imdb_id = MainId(douban_movie.imdb_id)
            /\ \A j \in 1..(k - 1) : catalog[j].imdb_id # MainId(douban_movie.imdb_id)
    ELSE 0

DefaultThreshold == <<4, 5>>

TitleScore(douban_movie, imdb_movie) ==
    LET score1 == similarity_score(douban_movie.title, imdb_movie.title,
                                   douban_movie.year, imdb_movie.year)
        score2 == IF douban_movie.english_title # <<>>
                  THEN similarity_score(douban_movie.english_title, imdb_movie.title,
                                        douban_movie.year, imdb_movie.year)
                  ELSE RatZero
    IN  RatMax(score1, score2)

(* lines 117-119 *)
BetterOrEqual(best, k, score) == IF RatLeq(best[2], score) THEN <<k, score>> ELSE best

Better(best, k, score) == IF RatLess(best[2], score) THEN <<k, score>> ELSE best

RECURSIVE BestByTitle(_, _, _, _)
(* the loop of find_imdb_match_by_title: <<best_match, best_score>> *)
BestByTitle(douban_movie, catalog, k, best) ==
    IF k > Len(catalog) THEN best
    ELSE BestByTitle(douban_movie, catalog, k + 1,
                     Better(best, k, TitleScore(douban_movie, catalog[k])))

AtLeastStrict(best, threshold) ==
    IF RatLess(threshold, best[2]) THEN best ELSE <<0, RatZero>>

(* lines 122-126 *)
AtLeast(best, threshold) == IF RatLeq(threshold, best[2]) THEN best ELSE <<0, RatZero>>

(* find_imdb_match_by_title: <<0, 0>> stands for (None, 0) *)
find_imdb_match_by_title(douban_movie, catalog, threshold) ==
    AtLeast(BestByTitle(douban_movie, catalog, 1, <<0, RatZero>>), threshold)

TvThreshold == <<7, 10>>

(* line 257 *)
BetterSeries(best, k, score) ==
    IF RatLess(best[2], score) /\ RatLeq(TvThreshold, score) THEN <<k, score>> ELSE best

(* lines 240-255 *)
SeriesScore(douban_movie, series_name, imdb_movie) ==
    IF is_tv_show(imdb_movie.title, <<>>, [type |-> NoType, imdb_id |-> imdb_movie.imdb_id])
    THEN similarity_score(series_name, extract_series_name(imdb_movie.title),
                          douban_movie.year, imdb_movie.year)
    ELSE similarity_score(series_name, imdb_movie.title, douban_movie.year, imdb_movie.year)

RECURSIVE BestBySeries(_, _, _, _, _)
(* the TV loop of find_imdb_match *)
BestBySeries(douban_movie, series_name, catalog, k, best) ==
    IF k > Len(catalog) THEN best
    ELSE BestBySeries(douban_movie, series_name, catalog, k + 1,
                      BetterSeries(best, k, SeriesScore(douban_movie, series_name, catalog[k])))

(* lines 216-267: the order in which find_imdb_match prefers its matches *)
PreferredMatch(imdb_id_match, is_tv, tv_best, title_match) ==
    IF imdb_id_match # 0 THEN <<imdb_id_match, RatOne>>
    ELSE IF is_tv /\ tv_best[1] # 0 THEN tv_best
    ELSE title_match

(* find_imdb_match: <<match, score>>, match 0 for None *)
find_imdb_match(douban_movie, catalog) ==
    PreferredMatch(find_imdb_match_by_id(douban_movie, catalog),
                   is_tv_show(douban_movie.title, douban_movie.original_title, douban_movie),
                   BestBySeries(douban_movie, extract_series_name(douban_movie.title),
                                catalog, 1, <<0, RatZero>>),
                   find_imdb_match_by_title(douban_movie, catalog, DefaultThreshold))

----------------------------------------------------------------------------
(* prepare_migration.py: prepare_migration_plan *)

MovieId(movie) == IF movie.douban_id # <<>> THEN movie.douban_id ELSE movie.imdb_id

(* movie_details[movie_id] = ...: a dict keeps the position of a key that  *)
(* is assigned again                                                       *)
Upsert(details, d) ==
    IF \E k \in 1..Len(details) : details[k].key = d.key
    THEN [details EXCEPT ![CHOOSE k \in 1..Len(details) : details[k].key = d.key] = d]
    ELSE Append(details, d)

(* lines 366-377: the entry of movie_details; idx is the reference to the  *)
(* movie object                                                            *)
Detail(movie, i, is_tv, tv_details) ==
    [key |-> MovieId(movie), idx |-> i,
     is_tv |-> is_tv \/ tv_details.season_number > 0,
     base_title |-> tv_details.base_title,
     season_number |-> tv_details.season_number,
     processed |-> FALSE]

RECURSIVE PreProcess(_, _, _)
(* lines 355-377 *)
PreProcess(ratings, i, details) ==
    IF i > Len(ratings) THEN details
    ELSE IF ratings[i].title = <<>> \/ MovieId(ratings[i]) = <<>>
         THEN PreProcess(ratings, i + 1, details)
         ELSE PreProcess(ratings, i + 1,
                 Upsert(details,
                        Detail(ratings[i], i,
                               is_tv_show(ratings[i].title, ratings[i].original_title, ratings[i]),
                               extract_tv_show_details(ratings[i].title,
                                                       ratings[i].original_title))))

ShowIndex(shows, show_key) ==
    IF \E k \in 1..Len(shows) : shows[k].key = show_key
    THEN CHOOSE k \in 1..Len(shows) : shows[k].key = show_key
    ELSE 0

NewShow(show_key, base_title, movie) ==
    [key |-> show_key, seasons |-> <<>>, base_title |-> base_title,
     base_original_title |-> IF movie.original_title # <<>>
                             THEN extract_series_name(movie.original_title) ELSE <<>>,
     year |-> movie.year, type |-> "tv", first_season_imdb_id |-> <<>>]

SeasonInfo(movie, season_number) ==
    [title |-> movie.title, original_title |-> movie.original_title,
     rating |-> movie.rating, douban_id |-> movie.douban_id,
     imdb_id |-> movie.imdb_id, season_number |-> season_number]

(* lines 395-405 and 446-454: the show of show_key, created if missing *)
EnsureShow(shows, show_key, base_title, movie) ==
    IF ShowIndex(shows, show_key) = 0
    THEN Append(shows, NewShow(show_key, base_title, movie)) ELSE shows

(* lines 408-412 and 458-466 *)
AppendSeason(shows, show_key, season) ==
    [shows EXCEPT ![ShowIndex(shows, show_key)].seasons = Append(@, season)]

(* the show of show_key created if missing, with one more season *)
AddSeason(shows, show_key, base_title, movie, season_number) ==
    AppendSeason(EnsureShow(shows, show_key, base_title, movie), show_key,
                 SeasonInfo(movie, season_number))

(* entry k of movie_details becomes a season of its show and is marked     *)
(* processed; acc = <<tv_shows, movie_details>>                            *)
MarkSeason(ratings, acc, k) ==
    <<AddSeason(acc[1], Lower(acc[2][k].base_title), acc[2][k].base_title,
                ratings[acc[2][k].idx], acc[2][k].season_number),
      [acc[2] EXCEPT ![k].processed = TRUE]>>

IsSeasonWithoutId(ratings, details, k) == details[k].is_tv

(* line 389: is_tv and "imdb_id" in movie *)
IsSeason(ratings, details, k) ==
    details[k].is_tv /\ HasImdbId(ratings[details[k].idx])

RECURSIVE GroupObvious(_, _, _)
(* Step 1, lines 385-414: <<tv_shows, movie_details>> *)
GroupObvious(ratings, k, acc) ==
    IF k > Len(acc[2]) THEN acc
    ELSE IF IsSeason(ratings, acc[2], k)
         THEN GroupObvious(ratings, k + 1, MarkSeason(ratings, acc, k))
         ELSE GroupObvious(ratings, k + 1, acc)

(* Step 2, lines 418-429: the positions in movie_details of the entries of *)
(* base_title_index[base_title], in order                                  *)
Indexed(ratings, details, k) ==
    ~details[k].processed /\ HasImdbId(ratings[details[k].idx])

TitleGroup(ratings, details, base_title) ==
    SelectSeq([k \in 1..Len(details) |-> k],
              LAMBDA k : Indexed(ratings, details, k) /\ Lower(details[k].base_title) = base_title)

RECURSIVE AddGroup(_, _, _, _)
(* lines 456-467: every member of the group becomes a season *)
AddGroup(ratings, acc, group, g) ==
    IF g > Len(group) THEN acc
    ELSE AddGroup(ratings, MarkSeason(ratings, acc, group[g]), group, g + 1)

(* lines 433-443: key k of base_title_index holds several movies, one of   *)
(* them with a TV indicator                                                *)
PotentialShow(ratings, index0, k, title_group) ==
    /\ Indexed(ratings, index0, k)
    /\ \A j \in 1..(k - 1) :
          ~(Indexed(ratings, index0, j)
            /\ Lower(index0[j].base_title) = Lower(index0[k].base_title))
    /\ Len(title_group) > 1
    /\ \E g \in 1..Len(title_group) : index0[title_group[g]].is_tv

RECURSIVE GroupPotential(_, _, _, _)
(* Step 3, lines 433-469, over the keys of base_title_index in insertion   *)
(* order: index0 is movie_details as Step 2 saw it                         *)
GroupPotential(ratings, index0, k, acc) ==
    IF k > Len(index0) THEN acc
    ELSE IF PotentialShow(ratings, index0, k,
                          TitleGroup(ratings, index0, Lower(index0[k].base_title)))
         THEN GroupPotential(ratings, index0, k + 1,
                             AddGroup(ratings, acc,
                                      TitleGroup(ratings, index0, Lower(index0[k].base_title)), 1))
         ELSE GroupPotential(ratings, index0, k + 1, acc)

(* lines 476-483 *)
WithSeasons(show_data, seasons) ==
    [show_data EXCEPT !.seasons = seasons,
                      !.first_season_imdb_id =
                          IF seasons # <<>> THEN MainId(seasons[1].imdb_id) ELSE @]

(* lines 473-483 *)
SortShow(show_data) == WithSeasons(show_data, SortSeasons(show_data.seasons))

SortShows(acc) == <<[k \in 1..Len(acc[1]) |-> SortShow(acc[1][k])], acc[2]>>

(* Steps 2 and 3 on the outcome of Step 1 *)
GroupRemaining(ratings, acc) == GroupPotential(ratings, acc[2], 1, acc)

(* lines 381-483: <<tv_shows, movie_details>> *)
GroupShows(ratings, details) ==
    SortShows(GroupRemaining(ratings, GroupObvious(ratings, 1, <<<<>>, details>>)))

EmptyPlan(ratings, catalog) ==
    [to_migrate |-> <<>>, already_rated |-> <<>>,
     stats |-> [total_douban_ratings |-> Len(ratings),
                total_imdb_ratings |-> Len(catalog),
                matched_with_existing_imdb |-> 0, has_imdb_id_to_migrate |-> 0,
                matched_by_title |-> 0, matched_by_manual |-> 0,
                not_matched |-> 0, tv_shows_combined |-> 0]]

ZeroCounts ==
    [matched_with_existing_imdb |-> 0, has_imdb_id_to_migrate |-> 0,
     title_matched_movies |-> 0, not_matched_movies |-> 0]

AverageTruncated(seasons) == SumRatings(seasons) \div Len(seasons)

AverageRating(seasons) == RoundHalfEven(SumRatings(seasons), Len(seasons))

CombinedShow(show_data) ==
    [title |-> show_data.base_title, original_title |-> show_data.base_original_title,
     year |-> show_data.year, rating |-> AverageRating(show_data.seasons),
     imdb_id |-> show_data.first_season_imdb_id, type |-> "tv",
     douban_id |-> show_data.seasons[1].douban_id,
     seasons_info |-> Len(show_data.seasons)]

(* a migration item; src is the reference the item holds: the position of  *)
(* the movie in douban_ratings, or 0 for a combined show                   *)
MigrationItem(douban, src, imdb, similarity, rating) ==
    [douban |-> douban, src |-> src, imdb |-> imdb, similarity_score |-> similarity,
     douban_rating |-> rating, imdb_rating |-> convert_douban_to_imdb_rating(rating)]

Stub(imdb_id) == [imdb_id |-> imdb_id]

AddShowUnflagged(ratings, show_data, item, rated, st) ==
    [plan |-> [st.plan EXCEPT
                  !.already_rated = IF rated THEN Append(@, item) ELSE @,
                  !.to_migrate = IF rated THEN @ ELSE Append(@, item),
                  !.stats.tv_shows_combined =
                      IF Len(show_data.seasons) > 1 THEN @ + 1 ELSE @],
     counts |-> IF rated
                THEN [st.counts EXCEPT !.matched_with_existing_imdb = @ + 1]
                ELSE [st.counts EXCEPT !.has_imdb_id_to_migrate = @ + 1],
     flagged |-> st.flagged]

(* lines 520-548: the plan, the counters and the flags after one show;    *)
(* st = [plan, counts, flagged]                                            *)
AddShow(ratings, show_data, item, rated, st) ==
    [plan |-> [st.plan EXCEPT
                  !.already_rated = IF rated THEN Append(@, item) ELSE @,
                  !.to_migrate = IF rated THEN @ ELSE Append(@, item),
                  !.stats.tv_shows_combined =
                      IF Len(show_data.seasons) > 1 THEN @ + 1 ELSE @],
     counts |-> IF rated
                THEN [st.counts EXCEPT !.matched_with_existing_imdb = @ + 1]
                ELSE [st.counts EXCEPT !.has_imdb_id_to_migrate = @ + 1],
     flagged |-> st.flagged \cup
                 {i \in 1..Len(ratings) :
                     \E n \in 1..Len(show_data.seasons) :
                         ratings[i].imdb_id = show_data.seasons[n].imdb_id}]

(* lines 507-528: the migration item of a show *)
ShowItem(catalog, combined_show, main_imdb_id) ==
    MigrationItem(combined_show, 0,
                  IF InImdbIndex(catalog, main_imdb_id)
                  THEN ImdbIndex(catalog, main_imdb_id) ELSE Stub(main_imdb_id),
                  RatOne, combined_show.rating)

(* lines 494-550: one iteration of the loop over tv_shows *)
ProcessShow(ratings, catalog, show_data, st) ==
    IF Len(show_data.seasons) >= 1
    THEN AddShow(ratings, show_data,
                 ShowItem(catalog, CombinedShow(show_data), show_data.first_season_imdb_id),
                 InImdbIndex(catalog, show_data.first_season_imdb_id), st)
    ELSE st

RECURSIVE ProcessShows(_, _, _, _)
(* lines 493-550; st = [plan, counts, flagged] *)
ProcessShows(ratings, catalog, shows, st) ==
    IF shows = <<>> THEN st
    ELSE ProcessShows(ratings, catalog, Tail(shows),
                      ProcessShow(ratings, catalog, Head(shows), st))

(* a builder that migrates every movie with an id, rated on IMDb or not *)
MovieWithIdMigrated(movie, i, imdb_id, catalog, st) ==
    [st EXCEPT !.plan.to_migrate =
                   Append(@, MigrationItem(movie, i, Stub(imdb_id), RatOne, movie.rating)),
               !.counts.has_imdb_id_to_migrate = @ + 1]

(* lines 560-578: a movie with an IMDb id *)
MovieWithId(movie, i, imdb_id, catalog, st) ==
    IF InImdbIndex(catalog, imdb_id)
    THEN [st EXCEPT !.plan.already_rated =
                        Append(@, MigrationItem(movie, i, ImdbIndex(catalog, imdb_id),
                                                RatOne, movie.rating)),
                    !.counts.matched_with_existing_imdb = @ + 1]
    ELSE [st EXCEPT !.plan.to_migrate =
                        Append(@, MigrationItem(movie, i, Stub(imdb_id),
                                                RatOne, movie.rating)),
                    !.counts.has_imdb_id_to_migrate = @ + 1]

(* a builder that migrates what it matched by title *)
MovieWithoutIdMigrated(movie, i, catalog, by_title, st) ==
    IF by_title[1] # 0
    THEN [st EXCEPT !.plan.to_migrate =
                        Append(@, MigrationItem(movie, i, catalog[by_title[1]],
                                                by_title[2], movie.rating)),
                    !.counts.title_matched_movies = @ + 1]
    ELSE [st EXCEPT !.counts.not_matched_movies = @ + 1]

(* lines 580-601: a movie without an IMDb id; by_title = <<match, score>> *)
MovieWithoutId(movie, i, catalog, by_title, st) ==
    IF by_title[1] # 0
    THEN [st EXCEPT !.plan.already_rated =
                        Append(@, MigrationItem(movie, i, catalog[by_title[1]],
                                                by_title[2], movie.rating)),
                    !.counts.title_matched_movies = @ + 1]
    ELSE [st EXCEPT !.counts.not_matched_movies = @ + 1]

(* lines 554-601: one iteration of the loop over douban_ratings *)
ProcessMovie(movie, i, catalog, st) ==
    IF i \in st.flagged THEN st
    ELSE IF HasImdbId(movie)
         THEN MovieWithId(movie, i, MainId(movie.imdb_id), catalog, st)
         ELSE MovieWithoutId(movie, i, catalog,
                             find_imdb_match_by_title(movie, catalog, DefaultThreshold), st)

RECURSIVE ProcessMovies(_, _, _, _)
(* lines 554-601; st = [plan, counts, flagged] *)
ProcessMovies(ratings, catalog, i, st) ==
    IF i > Len(ratings) THEN st
    ELSE ProcessMovies(ratings, catalog, i + 1, ProcessMovie(ratings[i], i, catalog, st))

(* a builder that leaves the stats as initialised at lines 336-345 *)
StatsNotUpdated(plan, counts) == plan

(* lines 604-607 *)
UpdateStats(plan, counts) ==
    [plan EXCEPT !.stats.matched_with_existing_imdb = counts.matched_with_existing_imdb,
                 !.stats.has_imdb_id_to_migrate = counts.has_imdb_id_to_migrate,
                 !.stats.matched_by_title = counts.title_matched_movies,
                 !.stats.not_matched = counts.not_matched_movies]

(* lines 610-617: the condition of the count mismatch warning *)
CountMismatch(plan, counts) ==
    LET total_with_imdb_ids == counts.matched_with_existing_imdb + counts.has_imdb_id_to_migrate
        total_processed == Len(plan.to_migrate) + Len(plan.already_rated)
        total_matched == total_with_imdb_ids + counts.title_matched_movies
    IN  total_processed # total_matched + counts.not_matched_movies


----------------------------------------------------------------------------
(* The input files.  A Douban record has the keys the exporter writes      *)
(* (douban_export.py 1307-1356); a missing key is the empty value.         *)

Movie(title, english_title, year, douban_id, imdb_id, rating, type) ==
    [title |-> title, english_title |-> english_title, original_title |-> <<>>,
     year |-> year, douban_id |-> douban_id, imdb_id |-> imdb_id,
     rating |-> rating, type |-> type]

Imdb(title, year, imdb_id, rating) ==
    [title |-> title, year |-> year, imdb_id |-> imdb_id, rating |-> rating]

tt1 == <<"t", "t", "1">>
tt2 == <<"t", "t", "2">>
tt3 == <<"t", "t", "3">>
tt9 == <<"t", "t", "9">>

DoubanPool ==
    << (* 1: a film with an id *)
       Movie(<<"a", "b">>, <<>>, "2001", <<"d", "1">>, tt1, 40, NoType),
       (* 2: a film without an id *)
       Movie(<<"T", "h", "e", " ", "a", "b", "!">>, <<>>, "2001", <<"d", "2">>, <<>>, 50, NoType),
       (* 3: a film without an id, titled unlike any catalog entry *)
       Movie(<<"z", "z">>, <<"q">>, NoYear, <<"d", "3">>, <<>>, 30, NoType),
       (* 4, 5: two seasons of one show, the second with an episode id *)
       Movie(<<"a", "b", " ", "S", "2">>, <<>>, "2001", <<"d", "4">>,
             tt2 \o <<"/", "e", "p", "2">>, 50, NoType),
       Movie(<<"a", "b", " ", "di", "yi", "ji">>, <<>>, "2001", <<"d", "5">>, tt2, 30, NoType),
       (* 6: an unrated film with an id *)
       Movie(<<"c", "d">>, <<>>, NoYear, <<"d", "6">>, tt3, 0, NoType),
       (* 7: an unrated film without an id *)
       Movie(<<"a", "b", "c">>, <<>>, NoYear, <<"d", "7">>, <<>>, 0, NoType),
       (* 8: a film that shares its id with a season *)
       Movie(<<"e", "f">>, <<>>, NoYear, <<"d", "8">>, tt2, 20, NoType),
       (* 9: a film that shares its Douban id and its IMDb id with film 1 *)
       Movie(<<"g", "h">>, <<>>, NoYear, <<"d", "1">>, tt1, 20, NoType),
       (* 10: a record without a title *)
       Movie(<<>>, <<>>, NoYear, <<"d", "0">>, tt3, 40, NoType),
       (* 11: the final season of the show of 4 and 5, without a number *)
       Movie(<<"a", "b", " ", "wan", "jie", "pian">>, <<>>, NoYear, <<"d", "1", "1">>,
             <<"t", "t", "4">>, 30, NoType),
       (* 12: a season of the show of 4 and 5, without an id *)
       Movie(<<"a", "b", " ", "S", "3">>, <<>>, "2001", <<"d", "1", "2">>, <<>>, 40, NoType) >>

ImdbPool ==
    << Imdb(<<"a", "b">>, "2001", tt1, 6),
       Imdb(<<"a", "b">>, NoYear, tt9, 7),
       Imdb(<<"a", "b", "c">>, NoYear, tt2, 8),
       Imdb(<<"c", "d">>, NoYear, tt3, 9) >>

(* the positions of the pool records the replayer is exercised with *)
ReplayDouban == {1, 5, 6, 9}
ReplayImdb == {1}

(* the sequences of at most n distinct members of S *)
RECURSIVE Picks(_, _)
Picks(S, n) ==
    IF n = 0 THEN {<<>>}
    ELSE LET shorter == Picks(S, n - 1)
             longest == {q \in shorter : Len(q) = n - 1}
         IN  shorter \cup
             {Append(qx[1], qx[2]) :
                qx \in {c \in longest \X S : \A i \in 1..Len(c[1]) : c[1][i] # c[2]}}

FromPool(pool, picks) == {[i \in 1..Len(q) |-> pool[q[i]]] : q \in picks}

----------------------------------------------------------------------------
(* State *)

VARIABLES
    douban_ratings,    \* the Douban export, as loaded (line 321)
    imdb_ratings,      \* the IMDb export, as loaded (line 330)
    movie_details,     \* prepare_migration_plan: movie_details, in key order
    tv_shows,          \* prepare_migration_plan: tv_shows, in key order
    migration_plan,    \* prepare_migration_plan: migration_plan
    counts,            \* the four counters of lines 486-489
    flagged,           \* the positions of the movies with _processed_as_tv_show
    warned,            \* the count mismatch warning of line 618 was logged
    plan_file,         \* the file at MIGRATION_PLAN_PATH
    progress_file,     \* the file at MIGRATION_PROGRESS_PATH
    max_movies,        \* execute_migration_plan: its argument, 0 for None
    movies_to_migrate, \* execute_migration_plan: movies_to_migrate
    total_movies,      \* execute_migration_plan: total_movies
    progress_data,     \* execute_migration_plan: progress_data
    pos,               \* the position of the loop of line 993
    success_count,
    failure_count,
    processed_count,
    summary,           \* what the run printed of its summary
    result,            \* what the run returned
    runs,              \* the runs of execute_migration_plan started so far
    retry_count,       \* rate_movie_on_imdb: retry_count of the running invocation
    calls,             \* the calls of rate_movie_on_imdb of the current run
    full_run,          \* the run in which every entry of the plan was rated, or 0
    pc,                \* where the program is
    fn,                \* the function called on its own, "" for none
    args,              \* its arguments
    ret                \* what it returned

builder_vars == <<douban_ratings, imdb_ratings, movie_details, tv_shows,
                  migration_plan, counts, flagged, warned, plan_file>>

NoFile == [exists |-> FALSE]

(* the plan file as open(save_path, 'w') leaves it: there, and empty *)
Truncated == [exists |-> TRUE, complete |-> FALSE]

(* the file holds a whole plan document *)
Saved(file) == file.exists /\ file.complete

replay_vars == <<progress_file, max_movies, movies_to_migrate, total_movies, progress_data,
                 pos, success_count, failure_count, processed_count, summary, result,
                 runs, retry_count, calls, full_run>>

call_vars == <<fn, args, ret>>

vars == <<builder_vars, replay_vars, call_vars, pc>>

(* the progress file: absent, a document with the list processed_imdb_ids, *)
(* a JSON object without that key, or a text json.load rejects             *)
ProgressFile(kind, ids) == [kind |-> kind, ids |-> ids]

DefaultProgress == [has_key |-> TRUE, ids |-> <<>>]

InitBuilder(doubans, imdbs) ==
    /\ douban_ratings \in doubans
    /\ imdb_ratings \in imdbs
    /\ movie_details = <<>>
    /\ tv_shows = <<>>
    /\ migration_plan = EmptyPlan(douban_ratings, imdb_ratings)
    /\ counts = ZeroCounts
    /\ flagged = {}
    /\ warned = FALSE
    /\ plan_file = NoFile
    /\ pc = "preprocess"

(* no function is called on its own *)
NoCall ==
    /\ fn = ""
    /\ args = <<>>
    /\ ret = <<>>

InitReplay(progress_files) ==
    /\ progress_file \in progress_files
    /\ max_movies = 0
    /\ movies_to_migrate = <<>>
    /\ total_movies = 0
    /\ progress_data = DefaultProgress
    /\ pos = 1
    /\ success_count = 0
    /\ failure_count = 0
    /\ processed_count = 0
    /\ summary = "none"
    /\ result = FALSE
    /\ runs = 0
    /\ retry_count = 0
    /\ calls = <<>>
    /\ full_run = 0

(* lines 352-377 *)
PreProcessMovies ==
    /\ pc = "preprocess"
    /\ movie_details' = PreProcess(douban_ratings, 1, <<>>)
    /\ pc' = "group"
    /\ UNCHANGED <<douban_ratings, imdb_ratings, tv_shows, migration_plan, counts,
                   flagged, warned, plan_file, replay_vars, call_vars>>

(* lines 379-483 *)
GroupTvShows ==
    /\ pc = "group"
    /\ LET r == GroupShows(douban_ratings, movie_details)
       IN  /\ tv_shows' = r[1]
           /\ movie_details' = r[2]
    /\ pc' = "shows"
    /\ UNCHANGED <<douban_ratings, imdb_ratings, migration_plan, counts,
                   flagged, warned, plan_file, replay_vars, call_vars>>

(* lines 485-550 *)
ProcessTvShows ==
    /\ pc = "shows"
    /\ LET st == ProcessShows(douban_ratings, imdb_ratings, tv_shows,
                              [plan |-> migration_plan, counts |-> counts, flagged |-> flagged])
       IN  /\ migration_plan' = st.plan
           /\ counts' = st.counts
           /\ flagged' = st.flagged
    /\ pc' = "movies"
    /\ UNCHANGED <<douban_ratings, imdb_ratings, movie_details, tv_shows, warned, plan_file,
                   replay_vars, call_vars>>

(* lines 552-601 *)
ProcessRemainingMovies ==
    /\ pc = "movies"
    /\ LET st == ProcessMovies(douban_ratings, imdb_ratings, 1,
                               [plan |-> migration_plan, counts |-> counts, flagged |-> flagged])
       IN  /\ migration_plan' = st.plan
           /\ counts' = st.counts
           /\ flagged' = st.flagged
    /\ pc' = "save"
    /\ UNCHANGED <<douban_ratings, imdb_ratings, movie_details, tv_shows, warned, plan_file,
                   replay_vars, call_vars>>

(* lines 603-632: the stats, the sanity check, and open(save_path, 'w'),   *)
(* which truncates the file before anything is written                     *)
SavePlan ==
    /\ pc = "save"
    /\ migration_plan' = UpdateStats(migration_plan, counts)
    /\ warned' = CountMismatch(migration_plan, counts)
    /\ plan_file' = Truncated
    /\ pc' = "dump"
    /\ UNCHANGED <<douban_ratings, imdb_ratings, movie_details, tv_shows, counts, flagged,
                   replay_vars, call_vars>>

(* lines 633-636: json.dump writes the document and the file is closed *)
DumpPlan ==
    /\ pc = "dump"
    /\ plan_file' = [exists |-> TRUE, complete |-> TRUE, plan |-> migration_plan]
    /\ pc' = "idle"
    /\ UNCHANGED <<douban_ratings, imdb_ratings, movie_details, tv_shows, migration_plan,
                   counts, flagged, warned, replay_vars, call_vars>>

BuilderStep ==
    \/ PreProcessMovies
    \/ GroupTvShows
    \/ ProcessTvShows
    \/ ProcessRemainingMovies
    \/ SavePlan
    \/ DumpPlan

----------------------------------------------------------------------------
(* migrate.py: execute_migration_plan *)

MaxMovies == 2

(* line 1000: imdb_movie.get("imdb_id") or douban_movie.get("imdb_id") *)
EntryId(movie) ==
    IF movie.imdb.imdb_id # <<>> THEN movie.imdb.imdb_id ELSE movie.douban.imdb_id

InSeq(x, seq) == \E i \in 1..Len(seq) : seq[i] = x

(* lines 950-953 *)
Limit(movies, limit) ==
    IF limit > 0 /\ limit < Len(movies) THEN SubSeq(movies, 1, limit) ELSE movies

(* lines 955-975: progress_data as loaded *)
LoadProgress(file) ==
    IF file.kind = "ids" THEN [has_key |-> TRUE, ids |-> file.ids]
    ELSE IF file.kind = "nokey" THEN [has_key |-> FALSE, ids |-> <<>>]
    ELSE DefaultProgress

(* lines 964-967: the filter on the ids of the progress file *)
SkipProcessed(movies, file) ==
    IF file.kind = "ids" /\ file.ids # <<>>
    THEN SelectSeq(movies, LAMBDA m : ~InSeq(EntryId(m), file.ids))
    ELSE movies

ResetRun ==
    /\ pos' = 1
    /\ success_count' = 0
    /\ failure_count' = 0
    /\ processed_count' = 0
    /\ calls' = <<>>

(* lines 939-990: the run up to the loop.  start is what setup_browser and *)
(* login_to_imdb_manually do: "ok", "setup_error" (setup_browser raises)   *)
(* or "login_failed"                                                       *)
StartRun(limit, start) ==
    /\ pc = "idle"
    /\ Saved(plan_file)
    /\ runs < MaxRuns
    /\ runs' = runs + 1
    /\ max_movies' = limit
    /\ ResetRun
    /\ LET plan == plan_file.plan
       IN  IF plan.to_migrate = <<>>
           THEN (* line 946: return False *)
                /\ movies_to_migrate' = <<>>
                /\ total_movies' = 0
                /\ progress_data' = DefaultProgress
                /\ summary' = "none"
                /\ result' = FALSE
                /\ pc' = "idle"
           ELSE /\ total_movies' = Len(plan.to_migrate)
                /\ movies_to_migrate' = SkipProcessed(Limit(plan.to_migrate, limit), progress_file)
                /\ progress_data' = LoadProgress(progress_file)
                /\ summary' = "none"
                /\ result' = FALSE
                /\ pc' = IF start = "login_failed" THEN "idle"
                         ELSE IF start = "setup_error" \/ movies_to_migrate' = <<>>
                              THEN "summary" ELSE "rating"
    /\ UNCHANGED <<call_vars, builder_vars, retry_count, progress_file, full_run>>

SkippedWithoutId(imdb_id, rating_to_apply) == imdb_id = <<>>

(* line 1008: not imdb_id or not rating_to_apply; 0 stands for the ratings *)
(* that are false in Python: 0, None and the default of the missing key    *)
Skipped(imdb_id, rating_to_apply) == imdb_id = <<>> \/ rating_to_apply = 0

(* lines 993-1022: one entry of the loop up to the call of                 *)
(* rate_movie_on_imdb, which starts with retry_count = 0                   *)
CallEffector ==
    /\ pc = "rating"
    /\ LET movie == movies_to_migrate[pos]
           imdb_id == EntryId(movie)
           rating_to_apply == movie.imdb_rating
       IN  /\ processed_count' = processed_count + 1
           /\ IF Skipped(imdb_id, rating_to_apply)
              THEN (* lines 1008-1011 *)
                   /\ failure_count' = failure_count + 1
                   /\ pos' = pos + 1
                   /\ pc' = IF pos' > Len(movies_to_migrate) THEN "summary" ELSE "rating"
                   /\ UNCHANGED calls
              ELSE /\ calls' = Append(calls,
                                 [imdb_id |-> imdb_id, rating |-> rating_to_apply,
                                  processed |-> InSeq(imdb_id, progress_data.ids),
                                  outcome |-> "running"])
                   /\ pc' = "effector"
                   /\ UNCHANGED <<failure_count, pos>>
    /\ UNCHANGED <<call_vars, builder_vars, retry_count, progress_file, max_movies,
                   movies_to_migrate, total_movies,
                   progress_data, success_count, summary, result, runs, full_run>>

MAX_RETRIES == 5

RATING_CONFIRMATION_RETRIES == 5

(* lines 896, 917, 927: retry_count < limit *)
CanRetry(count, limit) == count < limit

(* migrate.py lines 334-935: one invocation of rate_movie_on_imdb.  What   *)
(* the browser does in it is the input attempt: "success" (return True,    *)
(* lines 394, 429, 907), "failure" (return False at once: the page is not  *)
(* reached, line 340, or there is no rate button, line 912), "unconfirmed" *)
(* (no confirmation of the rating, line 894), "error" (an exception,       *)
(* lines 914 and 926) or "raise" (an exception that leaves the function).  *)
(* An unconfirmed or failed attempt is retried by a recursive call with    *)
(* retry_count + 1 while the limit allows, and returns False otherwise.    *)
(* retry_count keeps the depth reached until the loop has taken the result *)
rate_movie_on_imdb(attempt) ==
    /\ pc = "effector"
    /\ IF /\ attempt \in {"unconfirmed", "error"}
          /\ CanRetry(retry_count, IF attempt = "unconfirmed"
                                    THEN RATING_CONFIRMATION_RETRIES ELSE MAX_RETRIES)
       THEN /\ retry_count' = retry_count + 1
            /\ UNCHANGED <<calls, pc>>
       ELSE /\ calls' = [calls EXCEPT ![Len(calls)].outcome =
                             IF attempt \in {"success", "raise"} THEN attempt ELSE "failure"]
            /\ UNCHANGED retry_count
            /\ pc' = "returned"
    /\ UNCHANGED <<call_vars, builder_vars, progress_file, max_movies, movies_to_migrate,
                   total_movies, progress_data, pos, success_count, failure_count,
                   processed_count, summary, result, runs, full_run>>

(* a loop without the handler of line 1047: an exception of the call ends *)
(* the loop at the handler of line 1051                                    *)
RecordOutcomeUncaught ==
    /\ pc = "returned"
    /\ LET call == calls[Len(calls)]
       IN  IF call.outcome = "success"
           THEN /\ success_count' = success_count + 1
                /\ IF ~progress_data.has_key
                   THEN UNCHANGED <<progress_data, progress_file>>
                   ELSE IF ~InSeq(call.imdb_id, progress_data.ids)
                   THEN /\ progress_data' = [progress_data EXCEPT !.ids = Append(@, call.imdb_id)]
                        /\ progress_file' = ProgressFile("ids", progress_data'.ids)
                   ELSE UNCHANGED <<progress_data, progress_file>>
                /\ UNCHANGED failure_count
                /\ pos' = pos + 1
                /\ pc' = IF ~progress_data.has_key \/ pos' > Len(movies_to_migrate)
                         THEN "summary" ELSE "rating"
           ELSE /\ failure_count' = IF call.outcome = "failure"
                                    THEN failure_count + 1 ELSE failure_count
                /\ UNCHANGED <<success_count, progress_data, progress_file>>
                /\ pos' = pos + 1
                /\ pc' = IF call.outcome = "raise" \/ pos' > Len(movies_to_migrate)
                         THEN "summary" ELSE "rating"
    /\ retry_count' = 0
    /\ UNCHANGED <<call_vars, builder_vars, max_movies, movies_to_migrate, total_movies,
                   processed_count, summary, result, runs, calls, full_run>>

(* a loop that records the id whatever the call returned, present or not  *)
RecordOutcomeAnyResult ==
    /\ pc = "returned"
    /\ progress_data' = [progress_data EXCEPT !.ids = Append(@, calls[Len(calls)].imdb_id)]
    /\ progress_file' = ProgressFile("ids", progress_data'.ids)
    /\ IF calls[Len(calls)].outcome = "success"
       THEN success_count' = success_count + 1 /\ UNCHANGED failure_count
       ELSE failure_count' = failure_count + 1 /\ UNCHANGED success_count
    /\ pos' = pos + 1
    /\ pc' = IF pos' > Len(movies_to_migrate) THEN "summary" ELSE "rating"
    /\ retry_count' = 0
    /\ UNCHANGED <<call_vars, builder_vars, max_movies, movies_to_migrate, total_movies,
                   processed_count, summary, result, runs, calls, full_run>>

(* lines 1024-1049: what the loop does with the outcome of the call; the   *)
(* write of the progress file is taken to succeed                          *)
RecordOutcome ==
    /\ pc = "returned"
    /\ LET call == calls[Len(calls)]
           imdb_id == call.imdb_id
       IN  IF call.outcome = "success"
           THEN /\ success_count' = success_count + 1
                /\ IF ~progress_data.has_key
                   THEN (* KeyError at line 1027, caught at line 1047 *)
                        /\ failure_count' = failure_count + 1
                        /\ UNCHANGED <<progress_data, progress_file>>
                   ELSE IF ~InSeq(imdb_id, progress_data.ids)
                   THEN /\ progress_data' = [progress_data EXCEPT !.ids = Append(@, imdb_id)]
                        /\ progress_file' = ProgressFile("ids", progress_data'.ids)
                        /\ UNCHANGED failure_count
                   ELSE UNCHANGED <<progress_data, progress_file, failure_count>>
           ELSE /\ failure_count' = failure_count + 1
                /\ UNCHANGED <<success_count, progress_data, progress_file>>
    /\ pos' = pos + 1
    /\ pc' = IF pos' > Len(movies_to_migrate) THEN "summary" ELSE "rating"
    /\ retry_count' = 0
    /\ UNCHANGED <<call_vars, builder_vars, max_movies, movies_to_migrate, total_movies,
                   processed_count, summary, result, runs, calls, full_run>>

AllRated ==
    /\ Len(calls) = total_movies
    /\ \A i \in 1..Len(calls) : calls[i].outcome = "success"

(* lines 1054-1066 *)
PrintSummary ==
    /\ pc = "summary"
    /\ IF progress_data.has_key
       THEN /\ summary' = "full"
            /\ result' = (success_count > 0)
       ELSE (* KeyError at line 1059, caught at line 1064 *)
            /\ summary' = "totals"
            /\ result' = FALSE
    /\ full_run' = IF full_run = 0 /\ AllRated THEN runs ELSE full_run
    /\ pc' = "idle"
    /\ UNCHANGED <<call_vars, builder_vars, retry_count, progress_file, max_movies,
                   movies_to_migrate, total_movies,
                   progress_data, pos, success_count, failure_count, processed_count,
                   runs, calls>>

(* migrate_ratings, choice 5, lines 1162-1168 *)
ResetProgress ==
    /\ pc = "idle"
    /\ progress_file.kind # "absent"
    /\ progress_file' = ProgressFile("absent", <<>>)
    /\ full_run' = 0
    /\ UNCHANGED <<call_vars, builder_vars, retry_count, max_movies, movies_to_migrate,
                   total_movies, progress_data,
                   pos, success_count, failure_count, processed_count, summary, result,
                   runs, calls, pc>>

----------------------------------------------------------------------------
(* Specifications *)

Attempts == {"success", "failure", "unconfirmed", "error", "raise"}
Starts == {"ok", "setup_error", "login_failed"}

(* the progress files a run can find *)
ProgressFiles ==
    {ProgressFile("absent", <<>>), ProgressFile("nokey", <<>>), ProgressFile("corrupt", <<>>),
     ProgressFile("ids", <<>>), ProgressFile("ids", <<tt1>>)}

(* the builder alone, over every input of the pools *)
InitPlan ==
    /\ InitBuilder(FromPool(DoubanPool, Picks(1..Len(DoubanPool), MaxSrc)),
                   FromPool(ImdbPool, Picks(1..Len(ImdbPool), MaxCat)))
    /\ InitReplay({ProgressFile("absent", <<>>)})
    /\ NoCall

SpecPlan == InitPlan /\ [][BuilderStep]_vars

(* the builder over the seasons of one show *)
MaxSeasons == 3

SeasonRecords == {4, 5, 11}

InitSeasons ==
    /\ InitBuilder(FromPool(DoubanPool, Picks(SeasonRecords, MaxSeasons)),
                   FromPool(ImdbPool, Picks(1..Len(ImdbPool), MaxCat)))
    /\ InitReplay({ProgressFile("absent", <<>>)})
    /\ NoCall

SpecSeasons == InitSeasons /\ [][BuilderStep]_vars

(* the builder and the replayer *)
Init ==
    /\ InitBuilder(FromPool(DoubanPool, Picks(ReplayDouban, MaxPlanSrc)),
                   FromPool(ImdbPool, Picks(ReplayImdb, MaxCat)))
    /\ InitReplay(ProgressFiles)
    /\ NoCall

ReplayStep ==
    \/ \E limit \in 0..MaxMovies, start \in Starts : StartRun(limit, start)
    \/ CallEffector
    \/ \E attempt \in Attempts : rate_movie_on_imdb(attempt)
    \/ RecordOutcome
    \/ PrintSummary
    \/ ResetProgress

Next ==
    \/ BuilderStep
    \/ ReplayStep

(* the replayer on a plan file that is there when the program starts: its  *)
(* entries are migration items as the builder makes them, and items whose  *)
(* id or converted rating is missing                                       *)
StoredEntries ==
    << (* 1: 'ab', tt1, rated 4 *)
       MigrationItem(DoubanPool[1], 1, Stub(tt1), RatOne, DoubanPool[1].rating),
       (* 2: 'cd', tt3, unrated: the converted rating is 1 *)
       MigrationItem(DoubanPool[6], 2, Stub(tt3), RatOne, DoubanPool[6].rating),
       (* 3: 'ef', the id in the Douban record only *)
       MigrationItem(DoubanPool[8], 3, Stub(<<>>), RatOne, DoubanPool[8].rating),
       (* 4: 'zz', no id at all *)
       MigrationItem(DoubanPool[3], 4, Stub(<<>>), RatOne, DoubanPool[3].rating),
       (* 5: 'gh', tt1, no converted rating *)
       [MigrationItem(DoubanPool[9], 5, Stub(tt1), RatOne, DoubanPool[9].rating)
            EXCEPT !.imdb_rating = 0] >>

StoredPlans ==
    {[EmptyPlan(<<>>, <<>>) EXCEPT !.to_migrate = entries] :
        entries \in FromPool(StoredEntries, Picks(1..Len(StoredEntries), MaxPlanSrc))}

InitStored ==
    /\ douban_ratings = <<>>
    /\ imdb_ratings = <<>>
    /\ movie_details = <<>>
    /\ tv_shows = <<>>
    /\ migration_plan = EmptyPlan(<<>>, <<>>)
    /\ counts = ZeroCounts
    /\ flagged = {}
    /\ warned = FALSE
    /\ \E plan \in StoredPlans :
          plan_file = [exists |-> TRUE, complete |-> TRUE, plan |-> plan]
    /\ pc = "idle"
    /\ InitReplay(ProgressFiles)
    /\ NoCall

SpecStored == InitStored /\ [][ReplayStep]_vars

Spec == Init /\ [][Next]_vars

----------------------------------------------------------------------------
(* The functions called on their own *)

(* find_imdb_match_by_title over the records of the pool, the catalogs of  *)
(* the pool and three thresholds                                           *)
TitleMatchCalls ==
    {[fn |-> "find_imdb_match_by_title", args |-> <<DoubanPool[i], catalog, threshold>>] :
        i \in 1..Len(DoubanPool),
        catalog \in FromPool(ImdbPool, Picks(1..Len(ImdbPool), MaxCat)),
        threshold \in {<<1, 2>>, DefaultThreshold, RatOne}}

(* the ratings convert_douban_to_imdb_rating is called with, in tenths *)
MaxTenths == 60

ConvertCalls ==
    {[fn |-> "convert_douban_to_imdb_rating", args |-> <<douban_rating>>] :
        douban_rating \in (0 - MaxTenths)..MaxTenths}

(* the titles normalize_movie_title is called with: letters of the words   *)
(* removed, another letter, an upper-case letter, a blank and punctuation  *)
MaxTitle == 4

NormalizeCalls ==
    {[fn |-> "normalize_movie_title", args |-> <<title>>] :
        title \in UNION {[1..n -> {"a", "n", "T", "h", "e", "b", " ", "."}] : n \in 0..MaxTitle}}

InitFunctions ==
    /\ InitReplay({ProgressFile("absent", <<>>)})
    /\ douban_ratings = <<>>
    /\ imdb_ratings = <<>>
    /\ movie_details = <<>>
    /\ tv_shows = <<>>
    /\ migration_plan = EmptyPlan(douban_ratings, imdb_ratings)
    /\ counts = ZeroCounts
    /\ flagged = {}
    /\ warned = FALSE
    /\ plan_file = NoFile
    /\ \/ \E call \in TitleMatchCalls : fn = call.fn /\ args = call.args
       \/ \E call \in ConvertCalls : fn = call.fn /\ args = call.args
       \/ \E call \in NormalizeCalls : fn = call.fn /\ args = call.args
    /\ ret = <<>>
    /\ pc = "call"

Return(value) ==
    /\ ret' = value
    /\ pc' = "done"
    /\ UNCHANGED <<builder_vars, replay_vars, fn, args>>

CallTitleMatch ==
    /\ pc = "call"
    /\ fn = "find_imdb_match_by_title"
    /\ Return(find_imdb_match_by_title(args[1], args[2], args[3]))

CallConvert ==
    /\ pc = "call"
    /\ fn = "convert_douban_to_imdb_rating"
    /\ Return(convert_douban_to_imdb_rating(args[1]))

CallNormalize ==
    /\ pc = "call"
    /\ fn = "normalize_movie_title"
    /\ Return(normalize_movie_title(args[1]))

FunctionStep ==
    \/ CallTitleMatch
    \/ CallConvert
    \/ CallNormalize

SpecFunctions == InitFunctions /\ [][FunctionStep]_vars

----------------------------------------------------------------------------
(* Properties of the plan that prepare_migration_plan saves *)

Plan == plan_file.plan

(* the positions in douban_ratings of the records that became a season of  *)
(* a TV group                                                              *)
Members ==
    {movie_details[k].idx : k \in {j \in 1..Len(movie_details) : movie_details[j].processed}}

(* the records left as they are by the grouping *)
Ungrouped == {i \in 1..Len(douban_ratings) : i \notin Members}

Entries(list) == {list[n] : n \in 1..Len(list)}

(* the entries of list made from record i *)
EntriesOf(list, i) == {n \in 1..Len(list) : list[n].src = i}

RatedGroups == {k \in 1..Len(tv_shows) : AverageRating(tv_shows[k].seasons) # 0}

RatedUngrouped == {i \in Ungrouped : douban_ratings[i].rating # 0}

(* C1: in the saved plan the lengths of to_migrate and already_rated plus  *)
(* stats.not_matched add up to the number of post-grouping source records  *)
(* (one per TV group, plus every ungrouped record) whose rating is not 0.  *)
C1_PlanReconciliation ==
    Saved(plan_file) =>
        Len(Plan.to_migrate) + Len(Plan.already_rated) + Plan.stats.not_matched
            = Cardinality(RatedGroups) + Cardinality(RatedUngrouped)

(* C2: a record or TV aggregate whose rating is 0 is in neither list of    *)
(* the saved plan, so that no entry holds a rating converted from 0.       *)
C2_UnratedExcluded ==
    Saved(plan_file) =>
        \A e \in Entries(Plan.to_migrate) \cup Entries(Plan.already_rated) :
            /\ e.douban_rating # 0
            /\ e.douban.rating # 0

IdInCatalog(i) ==
    /\ HasImdbId(douban_ratings[i])
    /\ InImdbIndex(imdb_ratings, MainId(douban_ratings[i].imdb_id))

IdNotInCatalog(i) ==
    /\ HasImdbId(douban_ratings[i])
    /\ ~InImdbIndex(imdb_ratings, MainId(douban_ratings[i].imdb_id))

GroupsInCatalog ==
    {k \in 1..Len(tv_shows) : InImdbIndex(imdb_ratings, tv_shows[k].first_season_imdb_id)}

(* the match that find_imdb_match returns for record i is the catalog      *)
(* entry of its root id, with score 1.0                                    *)
MatchedById(i) ==
    /\ find_imdb_match(douban_ratings[i], imdb_ratings)[1] # 0
    /\ imdb_ratings[find_imdb_match(douban_ratings[i], imdb_ratings)[1]].imdb_id
           = MainId(douban_ratings[i].imdb_id)
    /\ find_imdb_match(douban_ratings[i], imdb_ratings)[2] = RatOne

(* C8: every post-grouping record whose root id is the id of a catalog     *)
(* entry is matched to that entry with score 1.0 and is one entry of       *)
(* already_rated, counted in matched_with_existing_imdb, whatever the      *)
(* titles of the other catalog entries.                                    *)
C8_ExactIdMatchWins ==
    Saved(plan_file) =>
        /\ \A i \in Ungrouped :
              IdInCatalog(i) =>
                  /\ MatchedById(i)
                  /\ \E n \in EntriesOf(Plan.already_rated, i) :
                        /\ Plan.already_rated[n].imdb.imdb_id = MainId(douban_ratings[i].imdb_id)
                        /\ Plan.already_rated[n].similarity_score = RatOne
                  /\ EntriesOf(Plan.to_migrate, i) = {}
        /\ Plan.stats.matched_with_existing_imdb
              = Cardinality({i \in Ungrouped : IdInCatalog(i)}) + Cardinality(GroupsInCatalog)

(* C9: every post-grouping record whose id is not in the catalog is one    *)
(* entry of to_migrate whose target is the stub of its root id, counted in *)
(* has_imdb_id_to_migrate, with no title match attempted.                  *)
C9_KnownIdToMigrate ==
    Saved(plan_file) =>
        /\ \A i \in Ungrouped :
              IdNotInCatalog(i) =>
                  /\ \E n \in EntriesOf(Plan.to_migrate, i) :
                        /\ Plan.to_migrate[n].imdb = Stub(MainId(douban_ratings[i].imdb_id))
                        /\ Plan.to_migrate[n].similarity_score = RatOne
                  /\ EntriesOf(Plan.already_rated, i) = {}
        /\ Plan.stats.has_imdb_id_to_migrate
              = Cardinality({i \in Ungrouped : IdNotInCatalog(i)})
                + Cardinality({k \in 1..Len(tv_shows) : k \notin GroupsInCatalog})

WithoutId == {i \in 1..Len(douban_ratings) : ~HasImdbId(douban_ratings[i])}

(* a catalog entry scores at or above the threshold against record i *)
FuzzyMatch(i) ==
    \E k \in 1..Len(imdb_ratings) :
        RatLeq(DefaultThreshold, TitleScore(douban_ratings[i], imdb_ratings[k]))

(* C10: a record without an id is never in to_migrate nor a season of a    *)
(* group; when a catalog entry scores at or above the threshold it is one  *)
(* entry of already_rated, matched to an entry of that score and counted   *)
(* in matched_by_title; otherwise it is in neither list and counted in     *)
(* not_matched.                                                            *)
C10_NoIdNeverMigrated ==
    Saved(plan_file) =>
        /\ \A i \in WithoutId :
              /\ EntriesOf(Plan.to_migrate, i) = {}
              /\ i \notin Members
              /\ IF FuzzyMatch(i)
                 THEN /\ Cardinality(EntriesOf(Plan.already_rated, i)) = 1
                      /\ \A n \in EntriesOf(Plan.already_rated, i) :
                            /\ Plan.already_rated[n].imdb \in Entries(imdb_ratings)
                            /\ RatLeq(DefaultThreshold, Plan.already_rated[n].similarity_score)
                 ELSE EntriesOf(Plan.already_rated, i) = {}
        /\ Plan.stats.matched_by_title = Cardinality({i \in WithoutId : FuzzyMatch(i)})
        /\ Plan.stats.not_matched = Cardinality({i \in WithoutId : ~FuzzyMatch(i)})

(* a plan built from one record without an id that a catalog entry matches *)
(* by title and one that none matches                                      *)
C10_Witness ==
    /\ Saved(plan_file)
    /\ \E i \in WithoutId : FuzzyMatch(i) /\ EntriesOf(Plan.already_rated, i) # {}
    /\ \E i \in WithoutId : ~FuzzyMatch(i)
    /\ Plan.stats.not_matched = 1
    /\ Plan.stats.matched_by_title = 1

----------------------------------------------------------------------------
(* Properties of the runs of execute_migration_plan *)

Succeeded(call) == call.outcome = "success"

(* C3: once a run has rated every entry of to_migrate with success, a      *)
(* later run on the same plan and the progress file that run left calls    *)
(* rate_movie_on_imdb for no entry.                                        *)
C3_IdempotentReplay ==
    (full_run # 0 /\ runs > full_run) => calls = <<>>

(* C4: rate_movie_on_imdb is never called for an id that is in             *)
(* processed_imdb_ids at the moment of the call, also when an earlier      *)
(* entry of the same run had the same id.                                  *)
C4_NoCallForProcessedId ==
    \A n \in 1..Len(calls) : ~calls[n].processed

(* C5: between two entries of a run, and when the loop is over, the id of  *)
(* every call that returned success is in the progress file on disk.       *)
C5_ProgressPersistedPerRating ==
    pc \in {"rating", "summary"} =>
        \A n \in 1..Len(calls) :
            Succeeded(calls[n]) =>
                /\ progress_file.kind = "ids"
                /\ InSeq(calls[n].imdb_id, progress_file.ids)

(* the entries of to_migrate whose id is not in the processed set *)
Unprocessed == SkipProcessed(plan_file.plan.to_migrate, progress_file)

(* C6: a run started with a limit k >= 1 takes the first (up to k) entries *)
(* of to_migrate that are not yet in the processed set.                    *)
C6_ResumesWhereLeftOff ==
    [][(pc = "idle" /\ runs' = runs + 1 /\ max_movies' >= 1)
          => movies_to_migrate' = Limit(Unprocessed, max_movies')]_vars

(* C7: a run in which a call of rate_movie_on_imdb failed or raised has,   *)
(* when it is over, attempted every entry it set out to rate, in order,    *)
(* and printed its summary.                                                *)
C7_FailureDoesNotAbort ==
    (pc = "idle" /\ \E n \in 1..Len(calls) : ~Succeeded(calls[n])) =>
        /\ processed_count = Len(movies_to_migrate)
        /\ Len(calls) = Len(movies_to_migrate)
        /\ \A n \in 1..Len(calls) : calls[n].imdb_id = EntryId(movies_to_migrate[n])
        /\ success_count = Cardinality({n \in 1..Len(calls) : Succeeded(calls[n])})
        /\ summary # "none"

(* a finished run whose first call raised, whose second call succeeded and *)
(* was recorded, and which printed the whole summary                       *)
C7_Witness ==
    /\ pc = "idle"
    /\ Len(calls) = 2
    /\ calls[1].outcome = "raise"
    /\ Succeeded(calls[2])
    /\ failure_count = 1
    /\ summary = "full"
    /\ progress_file = ProgressFile("ids", <<calls[2].imdb_id>>)

----------------------------------------------------------------------------
(* The order of to_migrate *)

(* C11: in the saved plan to_migrate is in descending order of imdb_rating *)
(* (the builder appends in discovery order, so a stable sort by that key   *)
(* would leave exactly the descending sequences as they are).              *)
C11_ToMigrateSorted ==
    Saved(plan_file) =>
        \A m, n \in 1..Len(Plan.to_migrate) :
            m < n => Plan.to_migrate[m].imdb_rating >= Plan.to_migrate[n].imdb_rating

----------------------------------------------------------------------------
(* Properties of the functions *)

Returned(name) == pc = "done" /\ fn = name

(* the catalog entries whose score no entry of the catalog exceeds *)
MaxScoring(douban_movie, catalog) ==
    {k \in 1..Len(catalog) :
        \A j \in 1..Len(catalog) :
            RatLeq(TitleScore(douban_movie, catalog[j]), TitleScore(douban_movie, catalog[k]))}

ScoreReaches(douban_movie, catalog, ks, threshold) ==
    \E k \in ks : RatLeq(threshold, TitleScore(douban_movie, catalog[k]))

C13_RatingConversion ==
    Returned("convert_douban_to_imdb_rating") =>
        /\ ret \in 1..10
        /\ \A r \in 1..5 : args[1] = 10 * r => ret = 2 * r

(* the average 4.5 of a TV group is converted to 9 *)
C13_Witness ==
    /\ Returned("convert_douban_to_imdb_rating")
    /\ args[1] = 45
    /\ ret = 9

(* C14: normalize_movie_title is idempotent: normalizing what it returned  *)
(* returns the same title, also when the removal of punctuation made a     *)
(* word of words_to_remove or merged two words.                            *)
C14_NormalizeIdempotent ==
    Returned("normalize_movie_title") => normalize_movie_title(ret) = ret

(* 'T.he': lower-casing and the removal of the dot make the word 'the',  *)
(* which is then removed                                                   *)
C14_Witness ==
    /\ Returned("normalize_movie_title")
    /\ args[1] = <<"T", ".", "h", "e">>
    /\ ret = <<>>

----------------------------------------------------------------------------
(* Records without a title *)

Titleless == {i \in 1..Len(douban_ratings) : douban_ratings[i].title = <<>>}

(* C15: a record without a title never becomes an entry of to_migrate or   *)
(* already_rated (the builder is to reject it with a ValidationError; the  *)
(* builder of the source has no such exit, so a saved plan is the only     *)
(* outcome there is).                                                      *)
C15_TitlelessRejected ==
    Saved(plan_file) =>
        \A i \in Titleless :
            EntriesOf(Plan.to_migrate, i) \cup EntriesOf(Plan.already_rated, i) = {}

----------------------------------------------------------------------------
(* TV groups in the plan *)

(* the entries of list made from TV group k: the aggregate carries the     *)
(* base title of the group, and no two groups have the same base title     *)
GroupEntries(list, k) ==
    {n \in 1..Len(list) : list[n].src = 0 /\ list[n].douban.title = tv_shows[k].base_title}

(* entry e is the aggregate of TV group k *)
IsAggregate(e, k) ==
    /\ e.imdb.imdb_id = tv_shows[k].first_season_imdb_id
    /\ e.douban.imdb_id = tv_shows[k].first_season_imdb_id
    /\ e.douban_rating = AverageRating(tv_shows[k].seasons)

(* C16: every TV group is exactly one entry of the saved plan, with the    *)
(* base title, the representative id and the aggregate rating of the       *)
(* group; no member season is an entry of its own in to_migrate or in      *)
(* already_rated, and not_matched counts ungrouped records only.           *)
C16_OneEntryPerGroup ==
    Saved(plan_file) =>
        /\ \A k \in 1..Len(tv_shows) :
              /\ Cardinality(GroupEntries(Plan.to_migrate, k))
                     + Cardinality(GroupEntries(Plan.already_rated, k)) = 1
              /\ \A n \in GroupEntries(Plan.to_migrate, k) :
                    IsAggregate(Plan.to_migrate[n], k)
              /\ \A n \in GroupEntries(Plan.already_rated, k) :
                    IsAggregate(Plan.already_rated[n], k)
        /\ \A i \in Members :
              EntriesOf(Plan.to_migrate, i) \cup EntriesOf(Plan.already_rated, i) = {}
        /\ Plan.stats.not_matched
              = Cardinality({i \in Ungrouped : i \in WithoutId /\ ~FuzzyMatch(i)})
        /\ Len(Plan.to_migrate) + Len(Plan.already_rated) <=
              Len(tv_shows) + Cardinality(Ungrouped)

(* the seasons 'ab S2' (tt2/ep2) and 'ab' season one (tt2) became the one  *)
(* entry 'ab' with the id tt2 and the rating 4.0, the only entry of the    *)
(* plan                                                                    *)
C16_Witness ==
    /\ Saved(plan_file)
    /\ Cardinality(Members) = 2
    /\ Len(tv_shows) = 1
    /\ Len(tv_shows[1].seasons) = 2
    /\ Plan.already_rated = <<>>
    /\ Len(Plan.to_migrate) = 1
    /\ Plan.to_migrate[1].douban.title = <<"a", "b">>
    /\ Plan.to_migrate[1].imdb = Stub(tt2)
    /\ Plan.to_migrate[1].douban_rating = 40

----------------------------------------------------------------------------
(* The plan file *)

(* C17: the plan file is written atomically: at every moment, and so for   *)
(* a replay or any other reader that opens it at that moment, the file is  *)
(* absent (the state before the save) or holds a whole plan document.      *)
C17_PlanWrittenAtomically == plan_file.exists => plan_file.complete

----------------------------------------------------------------------------
(* The formation of TV groups *)

(* the entries of movie_details whose record has an IMDb id *)
WithTargetId ==
    {k \in 1..Len(movie_details) : HasImdbId(douban_ratings[movie_details[k].idx])}

(* the entries with an IMDb id under the base-title key of entry k *)
SameKey(k) ==
    {j \in WithTargetId : Lower(movie_details[j].base_title) = Lower(movie_details[k].base_title)}

(* entry k is a season of the TV group of its base-title key *)
InGroupOfKey(k) ==
    /\ movie_details[k].processed
    /\ \E g \in 1..Len(tv_shows) :
          /\ tv_shows[g].key = Lower(movie_details[k].base_title)
          /\ \E n \in 1..Len(tv_shows[g].seasons) :
                tv_shows[g].seasons[n].douban_id = douban_ratings[movie_details[k].idx].douban_id

(* C18: among the records with an IMDb id, every base-title key of two or  *)
(* more records is a TV group of these records, and so is the key of one   *)
(* record flagged as a series.                                             *)
C18_GroupFormation ==
    Saved(plan_file) =>
        \A k \in WithTargetId :
            (Cardinality(SameKey(k)) >= 2 \/ movie_details[k].is_tv) => InGroupOfKey(k)

----------------------------------------------------------------------------
(* The representative id of a TV group *)

(* the seasons of group g that have a season number *)
Numbered(g) ==
    {n \in 1..Len(tv_shows[g].seasons) : tv_shows[g].seasons[n].season_number > 0}

(* the lowest-numbered season of group g, the earliest of the list when    *)
(* several have that number                                                *)
LowestNumbered(g) ==
    CHOOSE n \in Numbered(g) :
        \A m \in Numbered(g) :
            \/ tv_shows[g].seasons[n].season_number < tv_shows[g].seasons[m].season_number
            \/ /\ tv_shows[g].seasons[n].season_number = tv_shows[g].seasons[m].season_number
               /\ n <= m

(* the position in douban_ratings of the record of a season *)
RecordOf(season) ==
    CHOOSE i \in 1..Len(douban_ratings) :
        douban_ratings[i].douban_id = season.douban_id /\ douban_ratings[i].title = season.title

(* C19: the representative id of a group with a numbered season is the     *)
(* id of its lowest-numbered season cut at '/', whatever seasons without   *)
(* a number the group has; the seasons without a number are in discovery   *)
(* order.                                                                  *)
C19_RepresentativeId ==
    Saved(plan_file) =>
        \A g \in 1..Len(tv_shows) :
            /\ Numbered(g) # {} =>
                  tv_shows[g].first_season_imdb_id
                      = MainId(tv_shows[g].seasons[LowestNumbered(g)].imdb_id)
            /\ \A m, n \in 1..Len(tv_shows[g].seasons) :
                  (/\ m < n
                   /\ m \notin Numbered(g)
                   /\ n \notin Numbered(g)) =>
                      RecordOf(tv_shows[g].seasons[m]) < RecordOf(tv_shows[g].seasons[n])

----------------------------------------------------------------------------
(* The aggregate rating of a TV group *)

Abs(x) == IF x >= 0 THEN x ELSE 0 - x

(* rating (in tenths) is the mean of the ratings of seasons, to the        *)
(* nearest tenth                                                           *)
IsRoundedMean(rating, seasons) ==
    2 * Abs(rating * Len(seasons) - SumRatings(seasons)) <= Len(seasons)

(* entry e carries the rounded mean of the seasons of group g as the       *)
(* rating of its source record and as the value given to the converter     *)
CarriesMean(e, g) ==
    /\ IsRoundedMean(e.douban_rating, tv_shows[g].seasons)
    /\ e.douban.rating = e.douban_rating
    /\ e.imdb_rating = convert_douban_to_imdb_rating(e.douban_rating)

(* C20: the rating of the entry of a TV group is the mean of the ratings   *)
(* of all the member seasons' records, rounded to one decimal; it is the   *)
(* rating of the entry's source record and the converter's argument.       *)
C20_AggregateRating ==
    Saved(plan_file) =>
        \A g \in 1..Len(tv_shows) :
            /\ \A n \in 1..Len(tv_shows[g].seasons) :
                  tv_shows[g].seasons[n].rating
                      = douban_ratings[RecordOf(tv_shows[g].seasons[n])].rating
            /\ \A n \in GroupEntries(Plan.to_migrate, g) :
                  CarriesMean(Plan.to_migrate[n], g)
            /\ \A n \in GroupEntries(Plan.already_rated, g) :
                  CarriesMean(Plan.already_rated[n], g)

(* three seasons rated 5, 3 and 3: the mean 3.67 is stored as 3.7 and      *)
(* converted to 7                                                          *)
C20_Witness ==
    /\ Saved(plan_file)
    /\ Len(tv_shows) = 1
    /\ Len(tv_shows[1].seasons) = 3
    /\ SumRatings(tv_shows[1].seasons) = 110
    /\ Len(Plan.to_migrate) = 1
    /\ Plan.to_migrate[1].douban_rating = 37
    /\ Plan.to_migrate[1].douban.rating = 37
    /\ Plan.to_migrate[1].imdb_rating = 7

----------------------------------------------------------------------------
(* Ties in find_imdb_match_by_title *)

(* C21: when several catalog entries have the maximum score, the match     *)
(* find_imdb_match_by_title returns is the first of them in the order of   *)
(* the catalog.                                                            *)
C21_FirstOfTiedWins ==
    (Returned("find_imdb_match_by_title") /\ ret[1] # 0) =>
        \A k \in MaxScoring(args[1], args[2]) : ret[1] <= k

(* 'ab' (2001) against the catalog ['ab' without year (tt9), 'ab' of 2001  *)
(* (tt1)]: both score 1.0, the first is returned                           *)
C21_Witness ==
    /\ Returned("find_imdb_match_by_title")
    /\ args[1] = DoubanPool[1]
    /\ args[2] = <<ImdbPool[2], ImdbPool[1]>>
    /\ MaxScoring(args[1], args[2]) = {1, 2}
    /\ ret[1] = 1
    /\ args[2][ret[1]].imdb_id = tt9

----------------------------------------------------------------------------
(* The retries of rate_movie_on_imdb *)

RetryLimit == Max(MAX_RETRIES, RATING_CONFIRMATION_RETRIES)

(* rate_movie_on_imdb has returned False from its deepest invocation *)
RetriesExhausted ==
    /\ pc = "returned"
    /\ retry_count = RetryLimit
    /\ calls[Len(calls)].outcome = "failure"

(* retry_count never exceeds the larger limit, and an invocation at the    *)
(* limit does not invoke itself again                                      *)
RetriesBounded ==
    /\ [](retry_count <= RetryLimit)
    /\ [][(pc = "effector" /\ retry_count = RetryLimit) => pc' = "returned"]_vars

----------------------------------------------------------------------------
(* Records without an id and the TV groups *)

(* the records without an id whose title carries a season marker *)
SeasonsWithoutId ==
    {i \in WithoutId :
        \E k \in 1..Len(movie_details) : movie_details[k].idx = i /\ movie_details[k].is_tv}

(* the groups whose key is the base title of record i *)
GroupsOfBaseTitle(i) ==
    {g \in 1..Len(tv_shows) :
        \E k \in 1..Len(movie_details) :
            /\ movie_details[k].idx = i
            /\ tv_shows[g].key = Lower(movie_details[k].base_title)}

(* C23: a record without an imdb_id is no season of any TV group, also     *)
(* when its title has a season marker and its base title is that of a      *)
(* group; it is not marked as consumed, and the entry it gets by title     *)
(* matching holds the record as it is in the source.                       *)
C23_NoIdNeverGrouped ==
    Saved(plan_file) =>
        \A i \in WithoutId :
            /\ i \notin Members
            /\ i \notin flagged
            /\ \A g \in 1..Len(tv_shows) :
                  \A n \in 1..Len(tv_shows[g].seasons) : HasImdbId(tv_shows[g].seasons[n])
            /\ \A e \in Entries(Plan.to_migrate) \cup Entries(Plan.already_rated) :
                  e.src = i => e.douban = douban_ratings[i]

(* 'ab S3' without an id beside a group 'ab': the record is counted as not *)
(* matched and the group has the other seasons only                        *)
C23_Witness ==
    /\ Saved(plan_file)
    /\ \E i \in SeasonsWithoutId :
          /\ GroupsOfBaseTitle(i) # {}
          /\ i \notin Members
          /\ ~FuzzyMatch(i)
          /\ Plan.stats.not_matched = 1

----------------------------------------------------------------------------
(* The accounting of the source records *)

(* the records the final loop counts in not_matched: no id and no catalog  *)
(* entry at or above the threshold                                         *)
Unmatched == {i \in WithoutId : ~FuzzyMatch(i)}

(* the number of places where record i is accounted for: a season of a     *)
(* group, an entry of to_migrate, an entry of already_rated, an increment  *)
(* of not_matched                                                          *)
Accountings(i) ==
    (IF i \in Members THEN 1 ELSE 0)
    + Cardinality(EntriesOf(Plan.to_migrate, i))
    + Cardinality(EntriesOf(Plan.already_rated, i))
    + (IF i \in Unmatched THEN 1 ELSE 0)

(* C24: in the saved plan every source record is accounted for exactly     *)
(* once, as a season of one group, as one entry of to_migrate or           *)
(* already_rated, or as one increment of not_matched; this includes a      *)
(* record that shares its imdb_id with a season and records that share a   *)
(* douban_id.                                                              *)
C24_NoRecordLost ==
    Saved(plan_file) =>
        /\ \A i \in 1..Len(douban_ratings) : Accountings(i) = 1
        /\ Plan.stats.not_matched = Cardinality(Unmatched)

----------------------------------------------------------------------------
(* The statistics of the plan *)

(* C25: in every saved plan stats.has_imdb_id_to_migrate is the length of  *)
(* to_migrate, and stats.matched_with_existing_imdb plus                   *)
(* stats.matched_by_title is the length of already_rated.                  *)
C25_StatsAgreeWithLists ==
    Saved(plan_file) =>
        /\ Plan.stats.has_imdb_id_to_migrate = Len(Plan.to_migrate)
        /\ Plan.stats.matched_with_existing_imdb + Plan.stats.matched_by_title
               = Len(Plan.already_rated)

(* a saved plan with one entry to migrate and one entry matched by title *)
C25_Witness ==
    /\ Saved(plan_file)
    /\ Len(Plan.to_migrate) = 1
    /\ Len(Plan.already_rated) = 1
    /\ Plan.stats.has_imdb_id_to_migrate = 1
    /\ Plan.stats.matched_by_title = 1

----------------------------------------------------------------------------
(* The processed set *)

NoDuplicates(seq) == \A m, n \in 1..Len(seq) : seq[m] = seq[n] => m = n

(* C26: during a run processed_imdb_ids changes only by the append of the  *)
(* id of the call of rate_movie_on_imdb that has just returned success,    *)
(* and only when the id is not yet in it: nothing is added for an entry    *)
(* that failed, raised or was skipped, nothing is added twice, nothing is  *)
(* removed.  The file on disk changes with it and holds the same ids.      *)
C26_OnlySuccessesProcessed ==
    /\ [](NoDuplicates(progress_data.ids))
    /\ [][(pc # "idle" /\ progress_data'.ids # progress_data.ids) =>
              /\ pc = "returned"
              /\ Succeeded(calls[Len(calls)])
              /\ ~InSeq(calls[Len(calls)].imdb_id, progress_data.ids)
              /\ progress_data'.ids = Append(progress_data.ids, calls[Len(calls)].imdb_id)
              /\ progress_file' = ProgressFile("ids", progress_data'.ids)]_vars
    /\ [][(pc # "idle" /\ progress_file' # progress_file) =>
              progress_data'.ids # progress_data.ids]_vars

(* a run whose first call failed and whose second call succeeded: only the *)
(* id of the second is in the processed set, in memory and on disk         *)
C26_Witness ==
    /\ pc = "summary"
    /\ Len(calls) = 2
    /\ calls[1].outcome = "failure"
    /\ Succeeded(calls[2])
    /\ calls[1].imdb_id # calls[2].imdb_id
    /\ progress_data.ids = <<calls[2].imdb_id>>
    /\ progress_file = ProgressFile("ids", progress_data.ids)

----------------------------------------------------------------------------
(* What is rated on IMDb already *)

(* the entry of list that a call of rate_movie_on_imdb was made for *)
CalledFor(call, list) ==
    \E n \in 1..Len(list) :
        EntryId(list[n]) = call.imdb_id /\ list[n].imdb_rating = call.rating

(* C27: no entry of to_migrate has an id that is in the catalog the plan   *)
(* was built from, and every call of rate_movie_on_imdb is made for an     *)
(* entry of to_migrate, never for an entry of already_rated nor for an id  *)
(* of the catalog.                                                         *)
C27_RatedNeverRerated ==
    Saved(plan_file) =>
        /\ \A e \in Entries(Plan.to_migrate) : ~InImdbIndex(imdb_ratings, EntryId(e))
        /\ \A n \in 1..Len(calls) :
              /\ CalledFor(calls[n], Plan.to_migrate)
              /\ ~InImdbIndex(imdb_ratings, calls[n].imdb_id)
              /\ \A e \in Entries(Plan.already_rated) : EntryId(e) # calls[n].imdb_id

(* a plan with one entry already rated and one to migrate, and a finished  *)
(* run that called rate_movie_on_imdb once, for the entry to migrate       *)
C27_Witness ==
    /\ Saved(plan_file)
    /\ Len(Plan.already_rated) = 1
    /\ Len(Plan.to_migrate) = 1
    /\ pc = "idle"
    /\ runs = 1
    /\ Len(calls) = 1
    /\ Succeeded(calls[1])
    /\ calls[1].imdb_id = EntryId(Plan.to_migrate[1])

----------------------------------------------------------------------------
(* The totals of a run *)

(* C28: when a run of execute_migration_plan has printed its summary,      *)
(* success_count + failure_count = processed_count, whatever the progress  *)
(* file held, a JSON document without the key processed_imdb_ids included. *)
C28_RunTotalsConsistent ==
    (pc = "idle" /\ summary # "none") =>
        success_count + failure_count = processed_count

----------------------------------------------------------------------------
(* What rate_movie_on_imdb is called with *)

(* the entry has no id, or no rating to apply *)
Defective(movie) == EntryId(movie) = <<>> \/ movie.imdb_rating = 0

(* C29: every call of rate_movie_on_imdb carries a non-empty id and an     *)
(* integer rating of 1..10; an entry without id or without rating (0,      *)
(* None) is counted as processed and as a failure, and no call is made for *)
(* it.                                                                     *)
C29_CallsWellFormed ==
    /\ [](\A n \in 1..Len(calls) : calls[n].imdb_id # <<>> /\ calls[n].rating \in 1..10)
    /\ [][(pc = "rating" /\ Defective(movies_to_migrate[pos])) =>
              /\ calls' = calls
              /\ processed_count' = processed_count + 1
              /\ failure_count' = failure_count + 1
              /\ success_count' = success_count
              /\ progress_data' = progress_data]_vars

(* a finished run over an entry without a rating and an entry with id and  *)
(* rating: one failure without a call, one call with the rating 8          *)
C29_Witness ==
    /\ pc = "idle"
    /\ runs = 1
    /\ Len(movies_to_migrate) = 2
    /\ Defective(movies_to_migrate[1])
    /\ movies_to_migrate[1].imdb_rating = 0
    /\ calls = <<[imdb_id |-> tt1, rating |-> 8, processed |-> FALSE, outcome |-> "success"]>>
    /\ processed_count = 2
    /\ failure_count = 1
    /\ success_count = 1

----------------------------------------------------------------------------
(* The sanity check of the counts *)

(* the statistics of the saved plan agree with its lists *)
StatsConsistent ==
    /\ Plan.stats.has_imdb_id_to_migrate = Len(Plan.to_migrate)
    /\ Plan.stats.matched_with_existing_imdb + Plan.stats.matched_by_title
           = Len(Plan.already_rated)

(* C30: the count mismatch warning of the builder is logged only for a     *)
(* plan whose statistics disagree with its lists; for a consistent plan it *)
(* is not logged, also when some records were not matched                  *)
(* (not_matched > 0).                                                      *)
C30_WarningOnlyOnMismatch ==
    (Saved(plan_file) /\ StatsConsistent) => ~warned


====
